---- MODULE Spec2Model ----
(***************************************************************************)
(* A model of the USB descriptor builder of tinyusb-cpp                    *)
(* (src/src/USBDescriptor.h): the growable Vector, the descriptor arena    *)
(* USBConfigurationDescriptorData, the string table USBStrings and the     *)
(* typed tree USBDevice -> USBConfiguration -> USBInterface -> USBEndpoint *)
(* that overlays the arena's bytes.                                        *)
(*                                                                         *)
(* Pointers are integers: Null is nullptr, Wild is a pointer that does not *)
(* point at an object of the program, Uninit is the content of a slot that *)
(* was never written.                                                      *)
(***************************************************************************)
EXTENDS Integers, Sequences, FiniteSets, TLC

VARIABLES
    heapSlack,   \* the allocator leaves usable slack behind an array (a property of the build)
    garbage,     \* the byte that memory never written reads as (a property of the run)
    fault,       \* the program stopped on an access through nullptr or a wild pointer
    op,          \* the last operation: its name, argument, the size before it, its result
    vec,         \* a Vector<T> on its own
    appended,    \* history: the values given to vec.append since the last clear
    char_array,  \* USBStrings::char_array
    issued,      \* history: <<index returned, text>> of every USBStrings::add, in call order
    result,      \* USBStrings::result, the 32 code units toUtf fills
    arena,       \* USBConfigurationDescriptorData: buffer_ptr, *buffer_ptr, length
    hist,        \* history: the addDescriptor and descriptorTotalSize calls made, the size configured before the first append
    dev,         \* USBDevice: *descriptor_data, configurations, descriptor_total_size
    confs,       \* the USBConfiguration objects, in order of construction
    itfs,        \* the USBInterface objects, in order of construction
    eps          \* the USBEndpoint objects, in order of construction

envVars == <<heapSlack, garbage>>
vecVars == <<vec, appended>>
strVars == <<char_array, issued, result>>
arenaVars == <<arena, hist>>
treeVars == <<dev, confs, itfs, eps>>
vars == <<heapSlack, garbage, fault, op, vec, appended, char_array, issued, result,
          arena, hist, dev, confs, itfs, eps>>

----------------------------------------------------------------------------
(* Bounds of the model                                                     *)

MaxInitialSize == 2
MaxVecAppends == 4
MaxStrAdds == 4
MaxAddCalls == 260
VariedAdds == 3
MaxAppends == 3
MaxSizings == 1
MaxConfigs == 2
MaxInterfaces == 2
MaxEndpoints == 3
MaxSetterCalls == 1
MaxParses == 1
MaxQueryAdds == 11
MaxDeviceCalls == 2
MaxRawParses == 2
MaxTextLen == 2

----------------------------------------------------------------------------
(* Pointer values and small helpers                                        *)

Null == 0
Wild == 0 - 1
Uninit == 0 - 2

Fill(n, x) == [i \in 1..n |-> x]

Max(a, b) == IF a > b THEN a ELSE b

NoOp == [name |-> "none", arg |-> 0, aux |-> 0, before |-> 0, result |-> 0]

----------------------------------------------------------------------------
(* Vector<T>: max_size slots are allocated, actual_size are in use.  data  *)
(* holds the allocated slots, and one more when append has stored behind   *)
(* the allocation.  data_ is nullptr exactly when max_size is 0.           *)

Increments == {0, 2, 16}
ResizeSizes == {0, 1, 3, 4, 16, 20, 32}
VecValues == {1, 2}

\* Vector::grow with the rounding left out: a plausible slip
GrowNoRounding(v, newSize) ==
    IF newSize > v.max_size
    THEN [v EXCEPT !.max_size = newSize,
                   !.data = SubSeq(v.data, 1, v.actual_size)
                            \o Fill(newSize - v.actual_size, Uninit)]
    ELSE v

\* Vector::grow: allocation is taken to succeed, so the result is always true
grow(v, newSize) ==
    IF newSize > v.max_size
    THEN LET newSizeCalculated ==
                 IF v.increment_by > 0
                 THEN ((newSize \div v.increment_by) + 1) * v.increment_by
                 ELSE newSize
         IN [v EXCEPT !.max_size = newSizeCalculated,
                      !.data = SubSeq(v.data, 1, v.actual_size)
                               \o Fill(Max(newSizeCalculated - v.actual_size, 0), Uninit)]
    ELSE v

\* Vector::Vector(empty, initial_size, incrementBy)
NewVector(empty, initial_size, incrementBy) ==
    grow([max_size |-> 0, actual_size |-> 0, increment_by |-> incrementBy,
          data |-> <<>>, empty |-> empty], initial_size)

\* Vector::Vector(): empty is left unset
DefaultVector == NewVector(Uninit, 5, 5)

\* the store append writes to is nullptr
appendFaults(v) == grow(v, v.actual_size).max_size = 0

\* Vector::append: grow(actual_size) allocates only when actual_size > max_size,
\* so with actual_size = max_size the value is stored one slot behind the allocation,
\* where it survives only when the allocator left slack there
append(v, value) ==
    LET g == grow(v, v.actual_size)
        i == g.actual_size + 1
        stored == IF g.actual_size < g.max_size \/ heapSlack THEN value ELSE Wild
    IN [g EXCEPT !.data = IF i <= Len(g.data)
                          THEN [g.data EXCEPT ![i] = stored]
                          ELSE Append(g.data, stored),
                 !.actual_size = g.actual_size + 1]

\* Vector::size
size(v) == v.actual_size

\* Vector::get: no lower bound on index, a negative index reads before the store
get(v, index) ==
    IF index >= v.actual_size THEN v.empty
    ELSE IF index < 0 THEN Wild
    ELSE v.data[index + 1]

\* Vector::clear
clear(v) == [v EXCEPT !.actual_size = 0]

\* Vector::checkSize
checkSize(v, n) == n < v.max_size


----------------------------------------------------------------------------
(* USBStrings: const char* values are positions in Literals, Null is       *)
(* nullptr.                                                                *)

Literals == << <<65, 108, 112, 104, 97>>, <<66, 101, 116, 97>>,
              [i \in 1..33 |-> 96 + (i % 26)] >>
TextPtrs == 1..Len(Literals)

\* the pointers string() returns: result and language of the singleton
ResultBuffer == 1
LanguageBuffer == 2

\* USBStrings::result before its first use: static storage, all zero
NewResult == [i \in 1..32 |-> 0]

\* strlen
strlen(str) == Len(Literals[str])

\* USBStrings::char_array, as its initializer builds it
NewCharArray == NewVector(Null, 5, 5)

\* USBStrings::add that hands back the index of an equal earlier text
AddDeduplicating(ca, str) ==
    IF \E k \in 1..size(ca) : get(ca, k - 1) = str
    THEN [char_array |-> ca,
          index |-> CHOOSE k \in 1..size(ca) : get(ca, k - 1) = str]
    ELSE [char_array |-> append(ca, str), index |-> size(append(ca, str)) % 256]

\* USBStrings::add: the index is returned as uint8_t
USBStrings_add(ca, str) ==
    [char_array |-> append(ca, str), index |-> size(append(ca, str)) % 256]

\* USBStrings::get: operator[] takes the position as uint16_t
USBStrings_get(ca, index) == get(ca, (index - 1) % 65536)

\* USBStrings::clear
USBStrings_clear(ca) == clear(ca)

\* USBStrings::toUtf on the buffer res: at most 31 characters become code units 1..,
\* and the two bytes of code unit 0 are the length in bytes and 0x03 (little-endian).
\* strlen of a pointer that points at no text stops the program
toUtf(res, str) ==
    IF str = Null THEN [result |-> res, ptr |-> Null, fault |-> FALSE]
    ELSE IF str \notin TextPtrs THEN [result |-> res, ptr |-> Null, fault |-> TRUE]
    ELSE LET len == IF strlen(str) > 31 THEN 31 ELSE strlen(str)
         IN [result |-> [i \in 1..32 |->
                            IF i = 1 THEN ((2 * len + 2) % 256) + 256 * 3
                            ELSE IF i - 1 <= len THEN Literals[str][i - 1]
                            ELSE res[i]],
             ptr |-> ResultBuffer, fault |-> FALSE]

\* USBStrings::string: index 0 is the language record
string(ca, res, index) ==
    IF index = 0 THEN [result |-> res, ptr |-> LanguageBuffer, fault |-> FALSE]
    ELSE toUtf(res, USBStrings_get(ca, index))

\* the bytes of an array of uint16_t, little-endian, as a uint8_t* reads them
Bytes(units) ==
    [i \in 1..2 * Len(units) |->
        IF i % 2 = 1 THEN units[(i + 1) \div 2] % 256 ELSE units[i \div 2] \div 256]

\* memcmp(str1, str2, len): 0 when the first len bytes agree, and otherwise the
\* difference of the first two bytes that do not
memcmp(b1, b2, len) ==
    IF \A i \in 1..len : b1[i] = b2[i] THEN 0
    ELSE LET i == CHOOSE k \in 1..len :
                      b1[k] # b2[k] /\ \A j \in 1..(k - 1) : b1[j] = b2[j]
         IN b1[i] - b2[i]

\* USBStrings::equals: the int memcmp returns is converted to bool, so the result
\* is true when it is not 0
equals(str1, str2) ==
    LET char_ptr1 == Bytes(str1)
        char_ptr2 == Bytes(str2)
    IN IF char_ptr1[1] # char_ptr2[1] THEN FALSE
       ELSE memcmp(char_ptr1, char_ptr2, char_ptr1[1]) # 0

----------------------------------------------------------------------------
(* USBConfigurationDescriptorData: the arena.  A pointer into the buffer   *)
(* is the 1-based position of the byte it points at; the offset is one     *)
(* less.  A caller's array is a sequence of bytes, <<>> standing for       *)
(* nullptr.                                                                *)

DefaultBufferSize == 256
NullBytes == <<>>

NoBuffer == [max_size |-> 0, actual_size |-> 0, increment_by |-> 0,
             data |-> <<>>, empty |-> 0]

\* new Vector<uint8_t>(EMPTY, n, 0): the bytes of the new array are not set
NewBuffer(n) ==
    LET v == NewVector(0, n, 0) IN [v EXCEPT !.data = Fill(v.max_size, garbage)]

\* the singleton before its first use: buffer_ptr is nullptr, length is 0
NewArena == [allocated |-> FALSE, buf |-> NoBuffer, length |-> 0]

\* USBConfigurationDescriptorData::buffer: allocated the first time it is used
buffer(a) ==
    IF a.allocated THEN a
    ELSE [a EXCEPT !.allocated = TRUE, !.buf = NewBuffer(DefaultBufferSize)]

\* USBConfigurationDescriptorData::totalSize
totalSize(a) == a.length

\* memcpy(result, ptr, n): n bytes of the caller's array, and what lies behind it
CopyFrom(ptr, n) == [i \in 1..n |-> IF i <= Len(ptr) THEN ptr[i] ELSE garbage]

\* bytes stored at position pos of data, behind its end too
WriteAt(data, pos, bytes) ==
    [i \in 1..Max(Len(data), pos + Len(bytes) - 1) |->
        IF i >= pos /\ i < pos + Len(bytes) THEN bytes[i - pos + 1]
        ELSE IF i <= Len(data) THEN data[i]
        ELSE garbage]

\* the size addDescriptor copies and advances by
EffectiveSize(ptr, size_in) == IF size_in = 0 THEN ptr[1] ELSE size_in

\* addDescriptor reads ptr[0] of a nullptr
addDescriptorFaults(ptr, size_in) == size_in = 0 /\ ptr = NullBytes

\* USBConfigurationDescriptorData::addDescriptor: the check is on size_in, not on size
addDescriptor(a, ptr, size_in) ==
    LET b == buffer(a)
        sz == EffectiveSize(ptr, size_in)
    IN IF ~checkSize(b.buf, totalSize(a) + size_in)
       THEN [arena |-> b, result |-> Null]
       ELSE [arena |-> [b EXCEPT
                          !.buf.data = IF ptr # NullBytes
                                       THEN WriteAt(b.buf.data, a.length + 1, CopyFrom(ptr, sz))
                                       ELSE b.buf.data,
                          !.length = (a.length + sz) % 65536],
             result |-> a.length + 1]

\* USBConfigurationDescriptorData::clear
USBConfigurationDescriptorData_clear(a) ==
    LET b == buffer(a) IN [b EXCEPT !.buf = clear(b.buf), !.length = 0]

----------------------------------------------------------------------------
(* USBDevice                                                               *)

DefaultDescriptorTotalSize == 225

\* the singleton as constructed: descriptor_data is nullptr (<<>>)
NewDevice == [descriptor_data |-> <<>>,
              configurations |-> NewVector(Null, 1, 1),
              descriptor_total_size |-> DefaultDescriptorTotalSize]

\* USBDevice::descriptor_ptr: the record is made on first access
descriptor_ptr(d) ==
    IF d.descriptor_data # <<>> THEN d
    ELSE [d EXCEPT !.descriptor_data =
             <<18, 1, 0, 2, 0, 0, 0, 64, 0, 0, 1, 0, 1, 0, 0, 0, 0, 0>>]

\* USBDevice::clear, on the device
USBDevice_clear(d) == [d EXCEPT !.configurations = clear(d.configurations)]

----------------------------------------------------------------------------
(* The typed tree.  A node's descriptor_data is a pointer into the arena's *)
(* buffer; a field at offset k of the record lies at position pointer + k. *)
(* The nodes are kept in confs, itfs and eps in order of construction, and *)
(* a pointer to a node is its position there.  number, isInput and built   *)
(* are history: what the node was constructed with.                        *)

\* the byte a read at position p of the buffer yields, behind its end too
ByteAt(a, p) == IF p >= 1 /\ p <= Len(a.buf.data) THEN a.buf.data[p] ELSE garbage

\* fields: a set of <<offset, byte>>, stored into the record at p
WriteFields(a, p, fields) ==
    [a EXCEPT !.buf.data =
        [i \in DOMAIN @ |->
            IF \E f \in fields : p + f[1] = i
            THEN (CHOOSE f \in fields : p + f[1] = i)[2]
            ELSE @[i]]]

\* ++ that stores nothing: a plausible slip
NoIncrement(a, p, offset) == a

\* ++ on a uint8_t field
Increment(a, p, offset) == WriteFields(a, p, {<<offset, (ByteAt(a, p + offset) + 1) % 256>>})

\* a pointer the program cannot store through
Invalid(p) == p = Null \/ p = Wild

RECURSIVE BitOr(_, _)
BitOr(x, y) ==
    IF x = 0 THEN y
    ELSE IF y = 0 THEN x
    ELSE 2 * BitOr(x \div 2, y \div 2) + (IF x % 2 = 1 \/ y % 2 = 1 THEN 1 ELSE 0)

TransferType == [Control |-> 0, Isochronous |-> 1, Bulk |-> 2, Interrupt |-> 3]

\* bEndpointAddress with the number in bits 0..3 and the direction in bit 7
EndpointAddressShifted(endpointNumber, isInput) ==
    BitOr(endpointNumber % 16, (IF isInput THEN 1 ELSE 0) * 128)

\* endpointNumber & 0b00000111 | isInput<7: the comparison binds first and is true
\* of either bool, so the address is the low three bits of the number with bit 0 set
EndpointAddress(endpointNumber, isInput) ==
    BitOr(endpointNumber % 8, IF (IF isInput THEN 1 ELSE 0) < 7 THEN 1 ELSE 0)

\* USBEndpoint::USBEndpoint(parent, endpointNumber, isInput, xfer): 7 bytes are
\* appended unset and the fields stored; the bits of bmAttributes and of
\* wMaxPacketSize outside the bit-fields set keep what the memory held
NewEndpoint(a, endpointNumber, isInput, xfer) ==
    LET r == addDescriptor(a, NullBytes, 7)
        p == r.result
    IN IF p = Null THEN [arena |-> r.arena, ptr |-> Null]
       ELSE [arena |-> WriteFields(r.arena, p,
                          {<<0, 7>>, <<1, 5>>,
                           <<2, EndpointAddress(endpointNumber, isInput)>>,
                           <<3, xfer + (ByteAt(r.arena, p + 3) \div 64) * 64>>,
                           <<4, 64>>,
                           <<5, (ByteAt(r.arena, p + 5) \div 8) * 8>>,
                           <<6, 1>>}),
             ptr |-> p]

\* USBInterface::createEndpoint(isInput, xfer) on interface i: the constructor, then
\* bNumEndpoints++ and endpoints.append
createEndpoint(a, nodes, i, isInput, xfer) ==
    LET itf == nodes.itfs[i]
        e == NewEndpoint(a, size(itf.endpoints), isInput, xfer)
        id == Len(nodes.eps) + 1
    IN IF e.ptr = Null \/ Invalid(itf.descriptor_data)
       THEN [arena |-> e.arena, nodes |-> nodes, fault |-> TRUE]
       ELSE [arena |-> Increment(e.arena, itf.descriptor_data, 4),
             nodes |-> [nodes EXCEPT
                          !.eps = Append(@, [parent |-> i, descriptor_data |-> e.ptr,
                                             number |-> size(itf.endpoints),
                                             isInput |-> isInput, built |-> TRUE]),
                          !.itfs[i].endpoints = append(@, id)],
             fault |-> FALSE]

\* USBConfiguration::descriptor on configuration c: the record is appended on the
\* first call, wTotalLength is not among the fields stored
descriptor(a, nodes, c) ==
    LET conf == nodes.confs[c]
        r == addDescriptor(a, NullBytes, 9)
        p == r.result
    IN IF conf.descriptor_data # Null
       THEN [arena |-> a, nodes |-> nodes, ptr |-> conf.descriptor_data]
       ELSE IF p = Null
       THEN [arena |-> r.arena, nodes |-> nodes, ptr |-> Null]
       ELSE [arena |-> WriteFields(r.arena, p,
                          {<<0, 9>>, <<1, 2>>, <<5, conf.id % 256>>, <<6, 0>>,
                           <<7, 0>>, <<8, 50>>, <<4, 0>>}),
             nodes |-> [nodes EXCEPT !.confs[c].descriptor_data = p,
                                     !.confs[c].built = TRUE],
             ptr |-> p]

\* USBInterface::USBInterface(parent, interfaceNumber) as interface i, with its
\* control endpoint
NewInterface(a, nodes, c, interfaceNumber) ==
    LET r == addDescriptor(a, NullBytes, 9)
        p == r.result
        i == Len(nodes.itfs) + 1
        withItf == [nodes EXCEPT !.itfs = Append(@,
                       [parent |-> c, descriptor_data |-> p,
                        endpoints |-> DefaultVector, built |-> TRUE])]
    IN IF p = Null
       THEN [arena |-> r.arena, nodes |-> nodes, fault |-> TRUE]
       ELSE createEndpoint(
                WriteFields(r.arena, p,
                    {<<0, 9>>, <<1, 4>>, <<2, interfaceNumber % 256>>, <<3, 0>>,
                     <<4, 0>>, <<5, 0>>, <<6, 0>>, <<7, 0>>, <<8, 0>>}),
                withItf, i, TRUE, TransferType.Control)

\* USBConfiguration::createInterface() on configuration c
createInterface(a, nodes, c) ==
    LET d == descriptor(a, nodes, c)
        n == NewInterface(Increment(d.arena, d.ptr, 4), d.nodes, c,
                          size(d.nodes.confs[c].interfaces))
    IN IF Invalid(d.ptr)
       THEN [arena |-> d.arena, nodes |-> nodes, fault |-> TRUE]
       ELSE IF n.fault THEN n
       ELSE [n EXCEPT !.nodes.confs[c].interfaces = append(@, Len(n.nodes.itfs))]

\* a setter of USBEndpoint that stores at the start of the record: a plausible slip
SetAtRecordStart(setter, val) == {<<0, val % 256>>}

\* USBEndpoint::wMaxPacketSize and bInterval: both store into bInterval
USBEndpoint_set(setter, val) ==
    CASE setter = "wMaxPacketSize" -> {<<6, val % 256>>}
      [] setter = "bInterval" -> {<<6, val % 256>>}

\* the setters of USBInterface
USBInterface_set(setter, val) ==
    CASE setter = "iInterface" -> {<<8, val % 256>>}
      [] setter = "bAlternateSetting" -> {<<3, val % 256>>}
      [] setter = "bInterfaceClass" -> {<<5, val % 256>>}
      [] setter = "bInterfaceSubClass" -> {<<6, val % 256>>}
      [] setter = "bInterfaceProtocol" -> {<<7, val % 256>>}

\* the setters of USBConfiguration: bMaxPower stores half of its uint8_t argument
USBConfiguration_set(setter, val) ==
    CASE setter = "bMaxPower" -> {<<8, (val % 256) \div 2>>}
      [] setter = "bmAttributes" -> {<<7, val % 256>>}

\* the setters of USBDevice, 16-bit fields little-endian
USBDevice_set(setter, val) ==
    CASE setter = "bcdUSB" -> {<<2, val % 256>>, <<3, (val \div 256) % 256>>}
      [] setter = "bDeviceClass" -> {<<4, val % 256>>}
      [] setter = "bDeviceSubClass" -> {<<5, val % 256>>}
      [] setter = "bDeviceProtocol" -> {<<6, val % 256>>}
      [] setter = "bMaxPacketSize0" -> {<<7, val % 256>>}
      [] setter = "idVendor" -> {<<8, val % 256>>, <<9, (val \div 256) % 256>>}
      [] setter = "idProduct" -> {<<10, val % 256>>, <<11, (val \div 256) % 256>>}
      [] setter = "bcdDevice" -> {<<12, val % 256>>, <<13, (val \div 256) % 256>>}
      [] setter = "iManufacturer" -> {<<14, val % 256>>}
      [] setter = "iProduct" -> {<<15, val % 256>>}
      [] setter = "iSerialNumber" -> {<<16, val % 256>>}

\* fields stored into the device record, which is not in the arena
WriteDevice(d, fields) ==
    [d EXCEPT !.descriptor_data =
        [i \in DOMAIN @ |->
            IF \E f \in fields : f[1] + 1 = i
            THEN (CHOOSE f \in fields : f[1] + 1 = i)[2]
            ELSE @[i]]]

\* chained setters whose copies each have a record of their own: a plausible slip
ChainedOnCopies(d, setter1, val1, setter2, val2) ==
    WriteDevice(descriptor_ptr(d), USBDevice_set(setter1, val1))

\* d.setter1(val1).setter2(val2): the first setter runs on d and returns a copy of d
\* whose descriptor_data is the same pointer, so the second one stores into the
\* record of d
Chained(d, setter1, val1, setter2, val2) ==
    LET first == WriteDevice(descriptor_ptr(d), USBDevice_set(setter1, val1))
        second == WriteDevice(descriptor_ptr(first), USBDevice_set(setter2, val2))
    IN [first EXCEPT !.descriptor_data = second.descriptor_data]

\* a setter on a copy made of d: the copy shares the record of d when d has one, and
\* makes a record of its own, which d never sees, when d has none
SetOnCopy(d, setter, val) ==
    IF d.descriptor_data = <<>> THEN d
    ELSE WriteDevice(d, USBDevice_set(setter, val))

\* createInterface(data) whose node overlays the start of the buffer: a plausible slip
InterfaceAtBufferStart(a, nodes, c, p) ==
    LET n1 == [nodes EXCEPT
                 !.itfs = Append(@, [parent |-> c, descriptor_data |-> 1,
                                     endpoints |-> DefaultVector, built |-> FALSE]),
                 !.confs[c].interfaces = append(@, Len(nodes.itfs) + 1)]
    IN [arena |-> a, nodes |-> n1, fault |-> FALSE]

\* USBConfiguration::createInterface(data): the node overlays the record at p
createInterfaceFrom(a, nodes, c, p) ==
    LET i == Len(nodes.itfs) + 1
        n1 == [nodes EXCEPT
                 !.itfs = Append(@, [parent |-> c, descriptor_data |-> p,
                                     endpoints |-> DefaultVector, built |-> FALSE]),
                 !.confs[c].interfaces = append(@, i)]
        d == descriptor(a, n1, c)
    IN IF Invalid(d.ptr)
       THEN [arena |-> d.arena, nodes |-> nodes, fault |-> TRUE]
       ELSE [arena |-> WriteFields(d.arena, d.ptr,
                          {<<4, size(n1.confs[c].interfaces) % 256>>}),
             nodes |-> d.nodes, fault |-> FALSE]

\* USBInterface::createEndpoint(data): the node overlays the record at p, and
\* bNumEndpoints of the interface's record is incremented
createEndpointFrom(a, nodes, i, p) ==
    LET itf == nodes.itfs[i]
        id == Len(nodes.eps) + 1
    IN IF Invalid(itf.descriptor_data)
       THEN [arena |-> a, nodes |-> nodes, fault |-> TRUE]
       ELSE [arena |-> Increment(a, itf.descriptor_data, 4),
             nodes |-> [nodes EXCEPT
                          !.eps = Append(@, [parent |-> i, descriptor_data |-> p,
                                             number |-> size(itf.endpoints),
                                             isInput |-> FALSE, built |-> FALSE]),
                          !.itfs[i].endpoints = append(@, id)],
             fault |-> FALSE]

\* the loop of USBConfiguration::parseDescriptor, len read at ptr before the test;
\* ptr of the outcome is where the loop stopped, the position len was last read at
RECURSIVE parseLoop(_, _, _, _, _, _)
parseLoop(st, c, ptr, end, len, actual_itf) ==
    IF st.fault \/ ~(ptr < end /\ len > 0)
    THEN [arena |-> st.arena, nodes |-> st.nodes, fault |-> st.fault, ptr |-> ptr]
    ELSE LET tag == ByteAt(st.arena, ptr + 1)
             st1 == IF tag = 4 THEN createInterfaceFrom(st.arena, st.nodes, c, ptr)
                    ELSE IF tag = 5 /\ actual_itf # Null
                    THEN createEndpointFrom(st.arena, st.nodes, actual_itf, ptr)
                    ELSE st
             itf1 == IF tag = 4 THEN Len(st1.nodes.itfs) ELSE actual_itf
         IN parseLoop(st1, c, ptr + len, end, ByteAt(st1.arena, ptr + len), itf1)

\* USBConfiguration::parseDescriptor
parseDescriptor(a, nodes, c, data, data_len) ==
    IF Invalid(data) THEN [arena |-> a, nodes |-> nodes, fault |-> TRUE, ptr |-> data]
    ELSE parseLoop([arena |-> a, nodes |-> nodes, fault |-> FALSE],
                   c, data, data + data_len, ByteAt(a, data), Null)

\* USBConfiguration::setConfigurationDescriptor(desc, len, parse)
setConfigurationDescriptor(a, nodes, c, desc, len, parse) ==
    LET r == addDescriptor(a, desc, len)
        n1 == [nodes EXCEPT !.confs[c].descriptor_data = r.result]
    IN IF parse THEN parseDescriptor(r.arena, n1, c, r.result, len)
       ELSE [arena |-> r.arena, nodes |-> n1, fault |-> FALSE, ptr |-> r.result]

\* USBConfiguration::configurationDescriptor: data() of a copy of the singleton, the
\* start of the buffer whatever the configuration
USBConfiguration_configurationDescriptor(a, c) == IF a.allocated THEN 1 ELSE Wild

\* USBDevice::configurationDescriptor(idx): the call reads nothing of the
\* configuration configurations[idx] names
configurationDescriptor(a, d, idx) ==
    USBConfiguration_configurationDescriptor(a, get(d.configurations, idx))

\* USBInterface::usbEndpoint(index) on interface i: the element operator[] yields,
\* which the call dereferences into a reference whatever it is
usbEndpoint(nodes, i, index) == get(nodes.itfs[i].endpoints, index % 65536)

\* the result of a scan that never ends
Hangs == 0 - 3

\* findDescriptor without the count of matches: a plausible slip
RECURSIVE FindFirstMatch(_, _, _, _, _, _)
FindFirstMatch(a, ptr, end, id, idx, find_count) ==
    IF ~(ptr < end) THEN Null
    ELSE IF ByteAt(a, ptr + 1) = id THEN ptr
    ELSE IF ByteAt(a, ptr) = 0 THEN Hangs
    ELSE FindFirstMatch(a, ptr + ByteAt(a, ptr), end, id, idx, find_count)

\* the loop of USBConfiguration::findDescriptor.  A record of length 0 keeps ptr
\* where it is: with the tag looked for it is counted again on every turn until
\* find_count reaches idx and is returned, with another tag the loop never ends
RECURSIVE findLoop(_, _, _, _, _, _)
findLoop(a, ptr, end, id, idx, find_count) ==
    IF ~(ptr < end) THEN Null
    ELSE LET len == ByteAt(a, ptr)
             match == ByteAt(a, ptr + 1) = id
         IN IF match /\ find_count = idx THEN ptr
            ELSE IF len = 0 THEN (IF match THEN ptr ELSE Hangs)
            ELSE findLoop(a, ptr + len, end, id, idx,
                          IF match THEN find_count + 1 ELSE find_count)

\* USBConfiguration::findDescriptor(id, idx), both uint8_t, on the arena a with its
\* buffer in place
findDescriptor(a, id, idx) ==
    findLoop(a, 1, 1 + totalSize(a), id % 256, idx % 256, 0)

----------------------------------------------------------------------------
(* The state after construction                                            *)

GarbageBytes == {0, 165}

BaseInit ==
    /\ heapSlack \in BOOLEAN
    /\ garbage \in GarbageBytes
    /\ fault = FALSE
    /\ op = NoOp
    /\ appended = <<>>
    /\ char_array = NewCharArray
    /\ issued = <<>>
    /\ result = NewResult
    /\ arena = NewArena
    /\ hist = [appends |-> 0, sizings |-> 0, configured |-> 0, setters |-> 0, parses |-> 0]
    /\ dev = NewDevice
    /\ confs = <<>>
    /\ itfs = <<>>
    /\ eps = <<>>

Init ==
    /\ BaseInit
    /\ vec = DefaultVector

----------------------------------------------------------------------------
(* A Vector on its own: construction, append, resize, clear                *)

VecInit ==
    /\ BaseInit
    /\ \E initial_size \in 0..MaxInitialSize, incrementBy \in Increments :
           vec = NewVector(Null, initial_size, incrementBy)

VecAppend(value) ==
    /\ ~fault
    /\ Len(appended) < MaxVecAppends
    /\ IF appendFaults(vec)
       THEN /\ fault' = TRUE
            /\ UNCHANGED <<vec, appended>>
       ELSE /\ vec' = append(vec, value)
            /\ appended' = Append(appended, value)
            /\ UNCHANGED fault
    /\ op' = [name |-> "append", arg |-> value, aux |-> 0,
              before |-> vec.max_size, result |-> 0]
    /\ UNCHANGED <<envVars, strVars, arenaVars, treeVars>>

VecResize(newSize) ==
    /\ ~fault
    /\ vec' = grow(vec, newSize)
    /\ op' = [name |-> "resize", arg |-> newSize, aux |-> 0,
              before |-> vec.max_size, result |-> 1]
    /\ UNCHANGED <<envVars, fault, appended, strVars, arenaVars, treeVars>>

VecClear ==
    /\ ~fault
    /\ vec' = clear(vec)
    /\ appended' = <<>>
    /\ op' = [name |-> "clear", arg |-> 0, aux |-> 0,
              before |-> vec.max_size, result |-> 0]
    /\ UNCHANGED <<envVars, fault, strVars, arenaVars, treeVars>>

----------------------------------------------------------------------------
(* The string table                                                        *)

\* USBStrings::add
StrAdd(str) ==
    /\ ~fault
    /\ char_array' = USBStrings_add(char_array, str).char_array
    /\ issued' = Append(issued, <<USBStrings_add(char_array, str).index, str>>)
    /\ op' = [name |-> "add", arg |-> str, aux |-> 0,
              before |-> size(char_array),
              result |-> USBStrings_add(char_array, str).index]
    /\ UNCHANGED <<envVars, fault, vecVars, result, arenaVars, treeVars>>

\* USBStrings::clear
StrClear ==
    /\ ~fault
    /\ char_array' = USBStrings_clear(char_array)
    /\ op' = [name |-> "USBStrings::clear", arg |-> 0, aux |-> 0,
              before |-> size(char_array), result |-> 0]
    /\ UNCHANGED <<envVars, fault, vecVars, issued, result, arenaVars, treeVars>>

\* USBDevice::clear
DeviceClear ==
    /\ ~fault
    /\ dev' = USBDevice_clear(dev)
    /\ char_array' = USBStrings_clear(char_array)
    /\ arena' = USBConfigurationDescriptorData_clear(arena)
    /\ op' = [name |-> "USBDevice::clear", arg |-> 0, aux |-> 0,
              before |-> size(char_array), result |-> 0]
    /\ UNCHANGED <<envVars, fault, vecVars, issued, result, hist, confs, itfs, eps>>

QueryIndices == {0 - 65535, 0 - 1, 0, 1, 2, 3, 11, 65537}

\* USBStrings::string(index), as USBDevice::string calls it
QueryString(index) ==
    /\ ~fault
    /\ result' = string(char_array, result, index).result
    /\ fault' = string(char_array, result, index).fault
    /\ op' = [name |-> "string", arg |-> index, aux |-> 0,
              before |-> size(char_array),
              result |-> string(char_array, result, index).ptr]
    /\ UNCHANGED <<envVars, vecVars, char_array, issued, arenaVars, treeVars>>

----------------------------------------------------------------------------
(* The arena                                                               *)

ConfigRecord == <<9, 2, 25, 0, 1, 1, 0, 128, 50>>
BigRecord == [i \in 1..250 |-> IF i = 1 THEN 250 ELSE IF i = 2 THEN 255 ELSE 0]
RawDescriptors == {ConfigRecord, BigRecord}
ReserveSizes == {7, 9, 247}
TotalSizes == {16, 300}

AppendInputs ==
    {<<d, Len(d)>> : d \in RawDescriptors}
        \cup {<<d, 0>> : d \in RawDescriptors}
        \cup {<<NullBytes, n>> : n \in ReserveSizes}

\* USBBase::addDescriptor(desc, len), which hands both to the arena
AddDescriptor(ptr, size_in) ==
    /\ ~fault
    /\ hist.appends < MaxAppends
    /\ IF addDescriptorFaults(ptr, size_in)
       THEN /\ fault' = TRUE
            /\ UNCHANGED <<arena, op>>
       ELSE /\ arena' = addDescriptor(arena, ptr, size_in).arena
            /\ op' = [name |-> "addDescriptor", arg |-> size_in,
                      aux |-> EffectiveSize(ptr, size_in),
                      before |-> totalSize(arena),
                      result |-> addDescriptor(arena, ptr, size_in).result]
            /\ UNCHANGED fault
    /\ hist' = [hist EXCEPT !.appends = hist.appends + 1]
    /\ UNCHANGED <<envVars, vecVars, strVars, treeVars>>

\* USBConfigurationDescriptorData::clear
ArenaClear ==
    /\ ~fault
    /\ arena' = USBConfigurationDescriptorData_clear(arena)
    /\ op' = [name |-> "clear", arg |-> 0, aux |-> 0,
              before |-> totalSize(arena), result |-> 0]
    /\ UNCHANGED <<envVars, fault, vecVars, strVars, hist, treeVars>>

\* USBDevice::descriptorTotalSize: cd is a copy of the singleton, so the new Vector
\* is stored in the copy and lost.  With a buffer in place the singleton's Vector is
\* deleted and stays in use: it reads as before, or as the new Vector when the
\* allocator hands the freed block to it
DescriptorTotalSize(n) ==
    /\ ~fault
    /\ dev' = [dev EXCEPT !.descriptor_total_size = n]
    /\ \E reused \in BOOLEAN :
           arena' = IF arena.allocated /\ reused
                    THEN [arena EXCEPT !.buf = NewBuffer(n)]
                    ELSE arena
    /\ hist.sizings < MaxSizings
    /\ hist' = [hist EXCEPT !.sizings = @ + 1,
                             !.configured = IF hist.appends = 0 THEN n ELSE @]
    /\ op' = [name |-> "descriptorTotalSize", arg |-> n, aux |-> 0,
              before |-> totalSize(arena), result |-> 0]
    /\ UNCHANGED <<envVars, fault, vecVars, strVars, confs, itfs, eps>>

----------------------------------------------------------------------------
(* The builder                                                             *)

Nodes == [confs |-> confs, itfs |-> itfs, eps |-> eps]

\* the outcome r of an operation becomes the state; a program that stopped on a
\* fault keeps the state it had
Commit(r) ==
    /\ fault' = r.fault
    /\ IF r.fault
       THEN UNCHANGED <<arena, confs, itfs, eps>>
       ELSE /\ arena' = r.arena
            /\ confs' = r.nodes.confs
            /\ itfs' = r.nodes.itfs
            /\ eps' = r.nodes.eps

XferChoices == {TransferType.Bulk}
SetterValues == {200}
WordValues == {51966}

DeviceSetters == {"idVendor", "idProduct", "bcdDevice", "bDeviceClass"}
DeviceWords == {51966, 1}

\* two setters of USBDevice chained on the singleton: a.first(v).second(w)
ChainDevice(setter1, val1, setter2, val2) ==
    /\ ~fault
    /\ hist.setters < MaxDeviceCalls
    /\ dev' = Chained(dev, setter1, val1, setter2, val2)
    /\ hist' = [hist EXCEPT !.setters = @ + 1]
    /\ op' = [name |-> "chain", arg |-> <<setter1, val1>>, aux |-> <<setter2, val2>>,
              before |-> totalSize(arena), result |-> 0]
    /\ UNCHANGED <<envVars, fault, vecVars, strVars, arena, confs, itfs, eps>>

\* a setter called on a copy of the singleton: USBDevice dev = USBDevice::instance();
\* dev.setter(val)
SetDeviceOnCopy(setter, val) ==
    /\ ~fault
    /\ hist.setters < MaxDeviceCalls
    /\ dev' = SetOnCopy(dev, setter, val)
    /\ hist' = [hist EXCEPT !.setters = @ + 1]
    /\ op' = [name |-> "copy", arg |-> <<setter, val>>, aux |-> 0,
              before |-> totalSize(arena), result |-> 0]
    /\ UNCHANGED <<envVars, fault, vecVars, strVars, arena, confs, itfs, eps>>

\* USBDevice::createConfiguration: the constructor leaves descriptor_data unset, so
\* the new object holds nullptr or whatever its memory held
CreateConfiguration ==
    /\ ~fault
    /\ Len(confs) < MaxConfigs
    /\ \E unset \in {Null, Wild} :
           confs' = Append(confs, [id |-> size(dev.configurations),
                                   descriptor_data |-> unset,
                                   interfaces |-> DefaultVector,
                                   built |-> FALSE])
    /\ dev' = [WriteDevice(descriptor_ptr(dev),
                  {<<17, (descriptor_ptr(dev).descriptor_data[18] + 1) % 256>>})
                 EXCEPT !.configurations = append(@, Len(confs) + 1)]
    /\ op' = [name |-> "createConfiguration", arg |-> 0, aux |-> 0,
              before |-> totalSize(arena), result |-> Len(confs) + 1]
    /\ UNCHANGED <<envVars, fault, vecVars, strVars, arenaVars, itfs, eps>>

\* USBConfiguration::createInterface()
CreateInterface(c) ==
    /\ ~fault
    /\ Len(itfs) < MaxInterfaces
    /\ Len(eps) < MaxEndpoints
    /\ Commit(createInterface(arena, Nodes, c))
    /\ op' = [name |-> "createInterface", arg |-> c, aux |-> 0,
              before |-> totalSize(arena), result |-> Len(itfs) + 1]
    /\ UNCHANGED <<envVars, vecVars, strVars, hist, dev>>

\* USBInterface::createEndpoint(isInput, xfer)
CreateEndpoint(i, isInput, xfer) ==
    /\ ~fault
    /\ Len(eps) < MaxEndpoints
    /\ Commit(createEndpoint(arena, Nodes, i, isInput, xfer))
    /\ op' = [name |-> "createEndpoint", arg |-> i, aux |-> xfer,
              before |-> totalSize(arena), result |-> Len(eps) + 1]
    /\ UNCHANGED <<envVars, vecVars, strVars, hist, dev>>

\* a setter of USBEndpoint
SetEndpoint(e, setter, val) ==
    /\ ~fault
    /\ hist.setters < MaxSetterCalls
    /\ IF Invalid(eps[e].descriptor_data)
       THEN fault' = TRUE /\ UNCHANGED arena
       ELSE /\ arena' = WriteFields(arena, eps[e].descriptor_data,
                                    USBEndpoint_set(setter, val))
            /\ UNCHANGED fault
    /\ hist' = [hist EXCEPT !.setters = @ + 1]
    /\ op' = [name |-> setter, arg |-> e, aux |-> val,
              before |-> totalSize(arena), result |-> e]
    /\ UNCHANGED <<envVars, vecVars, strVars, treeVars>>

\* a setter of USBInterface
SetInterface(i, setter, val) ==
    /\ ~fault
    /\ hist.setters < MaxSetterCalls
    /\ IF Invalid(itfs[i].descriptor_data)
       THEN fault' = TRUE /\ UNCHANGED arena
       ELSE /\ arena' = WriteFields(arena, itfs[i].descriptor_data,
                                    USBInterface_set(setter, val))
            /\ UNCHANGED fault
    /\ hist' = [hist EXCEPT !.setters = @ + 1]
    /\ op' = [name |-> setter, arg |-> i, aux |-> val,
              before |-> totalSize(arena), result |-> i]
    /\ UNCHANGED <<envVars, vecVars, strVars, treeVars>>

\* USBInterface::name: the text is added to the string table
NameInterface(i, str) ==
    /\ ~fault
    /\ hist.setters < MaxSetterCalls
    /\ char_array' = USBStrings_add(char_array, str).char_array
    /\ issued' = Append(issued, <<USBStrings_add(char_array, str).index, str>>)
    /\ IF Invalid(itfs[i].descriptor_data)
       THEN fault' = TRUE /\ UNCHANGED arena
       ELSE /\ arena' = WriteFields(arena, itfs[i].descriptor_data,
                            USBInterface_set("iInterface",
                                             USBStrings_add(char_array, str).index))
            /\ UNCHANGED fault
    /\ hist' = [hist EXCEPT !.setters = @ + 1]
    /\ op' = [name |-> "name", arg |-> i, aux |-> str,
              before |-> totalSize(arena), result |-> i]
    /\ UNCHANGED <<envVars, vecVars, result, treeVars>>

\* a setter of USBConfiguration: descriptor() appends the record when there is none
SetConfiguration(c, setter, val) ==
    /\ ~fault
    /\ hist.setters < MaxSetterCalls
    /\ LET d == descriptor(arena, Nodes, c)
       IN Commit([arena |-> IF Invalid(d.ptr) THEN d.arena
                            ELSE WriteFields(d.arena, d.ptr,
                                             USBConfiguration_set(setter, val)),
                  nodes |-> d.nodes, fault |-> Invalid(d.ptr)])
    /\ hist' = [hist EXCEPT !.setters = @ + 1]
    /\ op' = [name |-> setter, arg |-> c, aux |-> val,
              before |-> totalSize(arena), result |-> c]
    /\ UNCHANGED <<envVars, vecVars, strVars, dev>>

\* a setter of USBDevice, called on the singleton
SetDevice(setter, val) ==
    /\ ~fault
    /\ hist.setters < MaxSetterCalls
    /\ dev' = WriteDevice(descriptor_ptr(dev), USBDevice_set(setter, val))
    /\ hist' = [hist EXCEPT !.setters = @ + 1]
    /\ op' = [name |-> setter, arg |-> 0, aux |-> val,
              before |-> totalSize(arena), result |-> 0]
    /\ UNCHANGED <<envVars, fault, vecVars, strVars, arena, confs, itfs, eps>>

\* the record chain as a caller copies it out: totalSize() bytes from data()
Serialized == SubSeq(arena.buf.data, 1, arena.length)

\* USBConfiguration::setConfigurationDescriptor(desc, len, true) on configuration c,
\* desc being a copy of the serialized chain
ParseSerialized(c) ==
    /\ ~fault
    /\ hist.parses < MaxParses
    /\ arena.allocated /\ arena.length > 0
    /\ Commit(setConfigurationDescriptor(arena, Nodes, c, Serialized,
                                         Len(Serialized), TRUE))
    /\ hist' = [hist EXCEPT !.parses = @ + 1]
    /\ op' = [name |-> "setConfigurationDescriptor", arg |-> c,
              aux |-> Len(Serialized),
              before |-> size(confs[c].interfaces),
              result |-> addDescriptor(arena, Serialized, Len(Serialized)).result]
    /\ UNCHANGED <<envVars, vecVars, strVars, dev>>

\* descriptors as a caller supplies them: the records, and the length passed
InterfaceRecord(n) == <<9, 4, n, 0, 1, 0, 0, 0, 0>>
EndpointRecordOf(address) == <<7, 5, address, 2, 64, 0, 1>>
ClassRecord == <<5, 36, 0, 1, 0>>
EmptyRecord == <<0, 5>>

RECURSIVE Flatten(_)
Flatten(recs) == IF recs = <<>> THEN <<>> ELSE Head(recs) \o Flatten(Tail(recs))

ParseInputs ==
    {[recs |-> <<ConfigRecord, InterfaceRecord(0), EndpointRecordOf(129),
                 EndpointRecordOf(1)>>, len |-> 32],
     [recs |-> <<ConfigRecord, EndpointRecordOf(1), InterfaceRecord(0), ClassRecord,
                 EndpointRecordOf(129), InterfaceRecord(1), EndpointRecordOf(2)>>,
      len |-> 53],
     [recs |-> <<ConfigRecord, InterfaceRecord(0), EmptyRecord, EndpointRecordOf(1)>>,
      len |-> 27],
     [recs |-> <<ConfigRecord, InterfaceRecord(0), EndpointRecordOf(1)>>, len |-> 20]}

\* USBConfiguration::setConfigurationDescriptor(desc, len, true) on configuration c,
\* desc being the caller's array in.recs
ParseRaw(c, in) ==
    /\ ~fault
    /\ hist.parses < MaxRawParses
    /\ Commit(setConfigurationDescriptor(arena, Nodes, c, Flatten(in.recs), in.len, TRUE))
    /\ hist' = [hist EXCEPT !.parses = @ + 1]
    /\ op' = [name |-> "parse", arg |-> c,
              aux |-> [input |-> in, itfs0 |-> Len(itfs), eps0 |-> Len(eps),
                       cursor |-> setConfigurationDescriptor(
                                      arena, Nodes, c, Flatten(in.recs), in.len, TRUE).ptr],
              before |-> size(confs[c].interfaces),
              result |-> addDescriptor(arena, Flatten(in.recs), in.len).result]
    /\ UNCHANGED <<envVars, vecVars, strVars, dev>>

----------------------------------------------------------------------------
(* Queries on the tree and the arena                                       *)

ConfigIndices == {0, 1, 2}
EndpointIndices == {0, 1, 3}
FindTags == {2, 4, 5, 11}
FindOccurrences == {0, 1, 2}

\* USBDevice::configurationDescriptor(idx).  When configurations[idx] is no object
\* (nullptr behind the last configuration) the member call on it is undefined: it
\* stops the program, or runs as on any configuration, since it reads no member
QueryConfiguration(idx) ==
    /\ ~fault
    /\ \E stops \in BOOLEAN :
           fault' = (stops /\ get(dev.configurations, idx) \notin 1..Len(confs))
    /\ op' = [name |-> "configurationDescriptor", arg |-> idx, aux |-> 0,
              before |-> size(dev.configurations),
              result |-> configurationDescriptor(arena, dev, idx)]
    /\ UNCHANGED <<envVars, vecVars, strVars, arenaVars, treeVars>>

\* USBInterface::usbEndpoint(index) on interface i
QueryEndpoint(i, index) ==
    /\ ~fault
    /\ op' = [name |-> "usbEndpoint", arg |-> i, aux |-> index,
              before |-> size(itfs[i].endpoints),
              result |-> usbEndpoint(Nodes, i, index)]
    /\ UNCHANGED <<envVars, fault, vecVars, strVars, arenaVars, treeVars>>

\* USBConfiguration::findDescriptor(id, idx): data() allocates the buffer when there
\* is none
Find(id, idx) ==
    /\ ~fault
    /\ Len(confs) > 0
    /\ arena' = buffer(arena)
    /\ op' = [name |-> "findDescriptor", arg |-> id, aux |-> idx,
              before |-> totalSize(arena),
              result |-> findDescriptor(buffer(arena), id, idx)]
    /\ UNCHANGED <<envVars, fault, vecVars, strVars, hist, treeVars>>

\* the texts of up to MaxTextLen characters over two letters, and the string
\* records equals is called with: a text as toUtf encodes it, followed by what the
\* buffer held before
Texts == UNION {[1..n -> {65, 66}] : n \in 0..MaxTextLen}
Encoded(text) == <<((2 * Len(text) + 2) % 256) + 256 * 3>> \o text
StringRecords == {Encoded(text) \o tail : text \in Texts, tail \in {<<>>, <<66>>}}

\* USBStrings::equals(str1, str2)
Equals(str1, str2) ==
    /\ ~fault
    /\ op' = [name |-> "equals", arg |-> str1, aux |-> str2, before |-> 0,
              result |-> equals(str1, str2)]
    /\ UNCHANGED <<envVars, fault, vecVars, strVars, arenaVars, treeVars>>

\* what USBBase::addDescriptor(desc, len) is called with before a scan: records and
\* bytes that are no record
RawAppends == {<<ConfigRecord, 9>>, <<ClassRecord, 5>>, <<EmptyRecord, 2>>,
               <<NullBytes, 7>>}

----------------------------------------------------------------------------
(* Specifications                                                          *)

VecNext ==
    \/ \E value \in VecValues : VecAppend(value)
    \/ \E newSize \in ResizeSizes : VecResize(newSize)
    \/ VecClear

SpecVector == VecInit /\ [][VecNext]_vars

\* add alone, long enough for the uint8_t index to wrap
StrAddNext ==
    /\ Len(issued) < MaxAddCalls
    /\ \E str \in (IF Len(issued) < VariedAdds THEN TextPtrs ELSE {1}) : StrAdd(str)

SpecStringsAdd == Init /\ [][StrAddNext]_vars

StrNext ==
    \/ Len(issued) < MaxStrAdds /\ \E str \in TextPtrs : StrAdd(str)
    \/ StrClear
    \/ DeviceClear

SpecStrings == Init /\ [][StrNext]_vars

\* add, clear and the string query; the texts vary, and clear is called, among the
\* first adds
StrQueryNext ==
    \/ /\ Len(issued) < MaxQueryAdds
       /\ \E str \in (IF Len(issued) < VariedAdds THEN TextPtrs ELSE {1}) : StrAdd(str)
    \/ Len(issued) < VariedAdds /\ StrClear
    \/ \E index \in QueryIndices : QueryString(index)

SpecStringQuery == Init /\ [][StrQueryNext]_vars

ArenaNext ==
    \/ \E in \in AppendInputs : AddDescriptor(in[1], in[2])
    \/ ArenaClear
    \/ \E n \in TotalSizes : DescriptorTotalSize(n)

SpecArena == Init /\ [][ArenaNext]_vars

BuilderNext ==
    \/ CreateConfiguration
    \/ \E c \in 1..Len(confs) : CreateInterface(c)
    \/ \E i \in 1..Len(itfs), isInput \in BOOLEAN, xfer \in XferChoices :
           CreateEndpoint(i, isInput, xfer)
    \/ \E e \in 1..Len(eps), setter \in {"wMaxPacketSize", "bInterval"},
          val \in SetterValues : SetEndpoint(e, setter, val)
    \/ \E i \in 1..Len(itfs),
          setter \in {"bAlternateSetting", "bInterfaceClass"},
          val \in SetterValues : SetInterface(i, setter, val)
    \/ \E i \in 1..Len(itfs), str \in TextPtrs : NameInterface(i, str)
    \/ \E c \in 1..Len(confs), setter \in {"bMaxPower", "bmAttributes"},
          val \in SetterValues : SetConfiguration(c, setter, val)
    \/ \E setter \in {"idVendor", "bDeviceClass"},
          val \in WordValues : SetDevice(setter, val)
    \/ \E c \in 1..Len(confs) : ParseSerialized(c)

\* no Vector of the builder reaches its capacity, so the allocator's slack is not read
BuilderInit == Init /\ heapSlack

SpecBuilder == BuilderInit /\ [][BuilderNext]_vars

\* the builder's create calls and the queries
QueryNext ==
    \/ CreateConfiguration
    \/ \E c \in 1..Len(confs) : CreateInterface(c)
    \/ \E i \in 1..Len(itfs), isInput \in BOOLEAN, xfer \in XferChoices :
           CreateEndpoint(i, isInput, xfer)
    \/ \E idx \in ConfigIndices : QueryConfiguration(idx)
    \/ \E i \in 1..Len(itfs), index \in EndpointIndices : QueryEndpoint(i, index)
    \/ \E id \in FindTags, idx \in FindOccurrences : Find(id, idx)

SpecQuery == BuilderInit /\ [][QueryNext]_vars

\* equals on pairs of string records
EqualsNext == \E str1 \in StringRecords, str2 \in StringRecords : Equals(str1, str2)

SpecEquals == Init /\ [][EqualsNext]_vars

\* findDescriptor on what addDescriptor(desc, len) appended
FindNext ==
    \/ CreateConfiguration
    \/ \E in \in RawAppends : AddDescriptor(in[1], in[2])
    \/ \E id \in FindTags, idx \in FindOccurrences : Find(id, idx)

SpecFind == BuilderInit /\ [][FindNext]_vars

\* the device record: its setters alone, chained and on a copy, and the count of
\* configurations
DeviceNext ==
    \/ CreateConfiguration
    \/ \E setter \in DeviceSetters, val \in DeviceWords : SetDevice(setter, val)
    \/ \E setter1 \in {"idVendor"}, setter2 \in {"idProduct", "bcdDevice"},
          val1 \in DeviceWords, val2 \in DeviceWords :
           ChainDevice(setter1, val1, setter2, val2)
    \/ \E setter \in DeviceSetters, val \in DeviceWords : SetDeviceOnCopy(setter, val)
    \/ DeviceClear

SpecDevice == BuilderInit /\ [][DeviceNext]_vars

\* the parser on descriptors a caller supplies, into a configuration with or without
\* interfaces built before
ParserNext ==
    \/ CreateConfiguration
    \/ \E c \in 1..Len(confs) : CreateInterface(c)
    \/ \E c \in 1..Len(confs), in \in ParseInputs : ParseRaw(c, in)

SpecParser == BuilderInit /\ [][ParserNext]_vars

----------------------------------------------------------------------------
(* The claims                                                              *)

\* the records of the nodes the builder constructed, as <<pointer, length, tag>>
BuilderRecords ==
    {<<confs[c].descriptor_data, 9, 2>> : c \in {k \in 1..Len(confs) : confs[k].built}}
        \cup {<<itfs[i].descriptor_data, 9, 4>> : i \in {k \in 1..Len(itfs) : itfs[k].built}}
        \cup {<<eps[e].descriptor_data, 7, 5>> : e \in {k \in 1..Len(eps) : eps[k].built}}

\* C1: after any builder operations and setter calls, every record the builder
\* appended to the arena has byte 0 equal to its length and byte 1 equal to its tag
\* (configuration 9/2, interface 9/4, endpoint 7/5), and the device record, once
\* made, starts 18/1
C1_RecordsSelfDescribing ==
    /\ \A r \in BuilderRecords :
           /\ r[1] >= 1 /\ r[1] + r[2] - 1 <= arena.length
           /\ ByteAt(arena, r[1]) = r[2]
           /\ ByteAt(arena, r[1] + 1) = r[3]
    /\ dev.descriptor_data # <<>> =>
           /\ Len(dev.descriptor_data) = 18
           /\ dev.descriptor_data[1] = 18
           /\ dev.descriptor_data[2] = 1

\* a configuration, an interface and three endpoints are built, and a setter of an
\* endpoint was the last call
C1_Witness ==
    /\ ~fault
    /\ op.name = "wMaxPacketSize"
    /\ Cardinality(BuilderRecords) >= 5
    /\ dev.descriptor_data # <<>>

\* the interfaces configuration c holds, and the endpoints interface i holds
InterfacesOf(c) == [k \in 1..size(confs[c].interfaces) |-> get(confs[c].interfaces, k - 1)]
EndpointsOf(i) == [k \in 1..size(itfs[i].endpoints) |-> get(itfs[i].endpoints, k - 1)]

\* the last step parsed the serialized chain of the one configuration built, src,
\* which has an interface with an extra endpoint, into configuration dst, which had
\* no interface
RoundTrip(src, dst) ==
    /\ op.name = "setConfigurationDescriptor" /\ ~fault
    /\ op.arg = dst /\ op.before = 0 /\ src # dst
    /\ confs[src].built /\ confs[src].descriptor_data = 1
    /\ \A c \in 1..Len(confs) : confs[c].built => c = src
    /\ \E k \in 1..Len(InterfacesOf(src)) : Len(EndpointsOf(InterfacesOf(src)[k])) >= 2

\* C2: the tree parsed from the serialized chain of a built configuration has the
\* interfaces of the original, each with as many endpoints, and its records hold the
\* bytes of the original's, bNumInterfaces and bNumEndpoints included
C2_RoundTrip ==
    \A src \in 1..Len(confs), dst \in 1..Len(confs) :
        RoundTrip(src, dst) =>
            /\ Len(InterfacesOf(dst)) = Len(InterfacesOf(src))
            /\ \A k \in 1..Len(InterfacesOf(src)) :
                   Len(EndpointsOf(InterfacesOf(dst)[k]))
                       = Len(EndpointsOf(InterfacesOf(src)[k]))
            /\ \A j \in 1..op.aux :
                   ByteAt(arena, op.result - 1 + j) = ByteAt(arena, j)

\* the length of the record chain configuration c owns: its record, the records of
\* its interfaces and of their endpoints
ChainLength(c) ==
    9 + 9 * Len(InterfacesOf(c))
      + 7 * Cardinality({e \in 1..Len(eps) : itfs[eps[e].parent].parent = c})

\* C3: wTotalLength of the record configurationDescriptor(index) returns is the
\* length of the record chain the configuration owns, after any builder operations
C3_TotalLengthIsChainLength ==
    \A c \in 1..Len(confs) :
        (~fault /\ hist.parses = 0 /\ confs[c].built) =>
            LET p == configurationDescriptor(arena, dev, c - 1)
            IN ByteAt(arena, p + 2) + 256 * ByteAt(arena, p + 3) = ChainLength(c)

\* C4: an endpoint created with number n and a direction has bEndpointAddress with n
\* in bits 0..3 and the direction in bit 7: number 1 gives 0x81 in and 0x01 out
C4_AddressHasNumberAndDirection ==
    (op.name = "createEndpoint" /\ ~fault) =>
        ByteAt(arena, eps[op.result].descriptor_data + 2)
            = EndpointAddressShifted(eps[op.result].number, eps[op.result].isInput)

\* the last step was an append to the arena that returned
Appended == op.name = "addDescriptor"

\* C5: after descriptorTotalSize(N), called before any append, the arena the appends
\* use has capacity N: an append succeeds exactly when the bytes appended so far and
\* its own fit in N bytes
C5_TotalSizeIsCapacity ==
    (hist.configured > 0 /\ Appended)
        => (op.result # Null <=> op.before + op.aux <= hist.configured)

\* C6: an append that would exceed the capacity returns nullptr, leaves the length
\* unchanged and changes no byte already written, whether its size is given or is
\* taken from the first data byte
C6_OverflowingAppendRejected ==
    [][(/\ hist'.appends = hist.appends + 1
        /\ ~fault'
        /\ arena.length + op'.aux > arena'.buf.max_size)
       => (/\ op'.result = Null
           /\ arena'.length = arena.length
           /\ \A i \in 1..arena.length : arena'.buf.data[i] = arena.buf.data[i])]_vars

\* C7: in every reachable state the elements in use are at most the capacity, in a
\* Vector (size() <= max_size) and in the arena (length <= max_size of its buffer)
C7_LengthWithinCapacity ==
    /\ vec.actual_size <= vec.max_size
    /\ arena.allocated => arena.length <= arena.buf.max_size

\* the last step was a resize(n) that had to grow the store
Resized == op.name = "resize" /\ op.arg > op.before

\* C8 as stated: a growing resize(n) with increment g > 0 sets the capacity to the
\* smallest multiple of g that is >= n, and with g = 0 to n
C8_SmallestMultipleAtLeast ==
    Resized => vec.max_size =
                   IF vec.increment_by > 0
                   THEN ((op.arg + vec.increment_by - 1) \div vec.increment_by)
                            * vec.increment_by
                   ELSE op.arg

\* C8 amended: a growing resize(n) with increment g > 0 sets the capacity to the
\* smallest multiple of g that is > n, and with g = 0 to n
C8_NextMultipleAbove ==
    Resized => IF vec.increment_by > 0
               THEN /\ vec.max_size % vec.increment_by = 0
                    /\ vec.max_size > op.arg
                    /\ vec.max_size - op.arg <= vec.increment_by
               ELSE vec.max_size = op.arg

\* resize(20) with increment 16 has grown the store to 32
C8_Witness ==
    Resized /\ vec.increment_by = 16 /\ op.arg = 20 /\ vec.max_size = 32

C10_IndicesStable ==
    \A k \in 1..Len(issued) :
        /\ USBStrings_get(char_array, issued[k][1]) = issued[k][2]
        /\ \A j \in 1..(k - 1) : issued[j][1] # issued[k][1]

\* the last step was string(index) for an index add has returned, no clear since the
\* table was created, so that index i denotes the i-th added text
AssignedQuery ==
    /\ op.name = "string"
    /\ op.before = Len(issued)
    /\ op.arg >= 1 /\ op.arg <= Len(issued)

\* C11: string(i) for an assigned index i >= 1 returns the bytes [2m+2][0x03] and m
\* code units equal to the first m characters of the i-th added text, m being the
\* smaller of the length of the text and 31
C11_EncodeUtf16 ==
    AssignedQuery =>
        LET text == Literals[issued[op.arg][2]]
            m == IF Len(text) > 31 THEN 31 ELSE Len(text)
        IN /\ ~fault
           /\ op.result = ResultBuffer
           /\ result[1] % 256 = 2 * m + 2
           /\ result[1] \div 256 = 3
           /\ \A i \in 1..m : result[i + 1] = text[i]

\* C12: a string query with an index above the number of strings added, or a
\* negative one, returns no descriptor
C12_OutOfRangeNotFound ==
    (op.name = "string" /\ (op.arg > Len(issued) \/ op.arg < 0)) =>
        (~fault /\ op.result = Null)

\* C13: configurationDescriptor(idx) with idx at or above the number of
\* configurations, and usbEndpoint(index) with index at or above the number of
\* endpoints, return nothing: no descriptor bytes and no node
C13_QueryOutOfRangeNotFound ==
    /\ (op.name = "configurationDescriptor" /\ op.arg >= op.before) =>
           (~fault /\ op.result = Null)
    /\ (op.name = "usbEndpoint" /\ op.aux >= op.before) => op.result = Null

\* C14: configurationDescriptor(index), for an index below the number of
\* configurations, returns the bytes that start with the configuration record made
\* for that configuration
C14_ReturnsOwnChain ==
    (/\ op.name = "configurationDescriptor" /\ ~fault
     /\ op.arg < op.before
     /\ confs[get(dev.configurations, op.arg)].built) =>
        op.result = confs[get(dev.configurations, op.arg)].descriptor_data

\* the records with tag id the builder appended, and the one among them with exactly
\* idx of them before it
Tagged(id) == {r \in BuilderRecords : r[3] = id}
Occurrence(id, idx) ==
    {r[1] : r \in {t \in Tagged(id) :
                      Cardinality({q \in Tagged(id) : q[1] < t[1]}) = idx}}

\* C16: findDescriptor(tag, k) returns the position of the k-th (0-based) record
\* with that tag, counted from the start of the arena, or nullptr when there are not
\* k+1 of them
C16_FindKthRecord ==
    op.name = "findDescriptor" =>
        IF Occurrence(op.arg, op.aux) = {}
        THEN op.result = Null
        ELSE op.result \in Occurrence(op.arg, op.aux)

\* on a chain with two endpoint records find(0x05, 1) has returned the second
C16_Witness ==
    /\ op.name = "findDescriptor" /\ op.arg = 5 /\ op.aux = 1
    /\ Len(eps) = 2
    /\ op.result = eps[2].descriptor_data
    /\ findDescriptor(arena, 5, 2) = Null

DeviceRecord == descriptor_ptr(dev).descriptor_data

\* C18: after idVendor(v).idProduct(w) chained on the singleton the device record
\* holds both little-endian, v in bytes 8..9 and w in bytes 10..11 (0xCAFE as
\* {0xFE, 0xCA}, 0x0001 as {0x01, 0x00}), with byte 0 = 18 and byte 1 = 0x01
C18_ChainedDeviceFields ==
    (op.name = "chain" /\ op.arg[1] = "idVendor" /\ op.aux[1] = "idProduct") =>
        /\ Len(DeviceRecord) = 18
        /\ DeviceRecord[1] = 18 /\ DeviceRecord[2] = 1
        /\ DeviceRecord[9] = op.arg[2] % 256
        /\ DeviceRecord[10] = op.arg[2] \div 256
        /\ DeviceRecord[11] = op.aux[2] % 256
        /\ DeviceRecord[12] = op.aux[2] \div 256

\* idVendor(0xCAFE).idProduct(0x0001) has left FE CA 01 00 in bytes 8..11
C18_Witness ==
    /\ op.name = "chain" /\ op.arg = <<"idVendor", 51966>> /\ op.aux = <<"idProduct", 1>>
    /\ SubSeq(DeviceRecord, 9, 12) = <<254, 202, 1, 0>>

\* the endpoint record of endpoint e in arena a, its 7 bytes
EndpointRecord(a, e) == [k \in 0..6 |-> ByteAt(a, eps[e].descriptor_data + k)]

\* C19: wMaxPacketSize(v) on an endpoint writes v to bytes 4..5 of its record and
\* leaves bInterval (byte 6) and every other byte as it was; bInterval(v) writes
\* byte 6 only
C19_EndpointSettersFrame ==
    [][(/\ op'.name \in {"wMaxPacketSize", "bInterval"}
        /\ hist'.setters = hist.setters + 1
        /\ ~fault')
       => LET e == op'.arg
              old == EndpointRecord(arena, e)
              new == EndpointRecord(arena', e)
              v == op'.aux
          IN /\ op'.result = e
             /\ op'.name = "wMaxPacketSize" =>
                    /\ new[4] = v % 256 /\ new[5] = (v \div 256) % 256
                    /\ \A k \in {0, 1, 2, 3, 6} : new[k] = old[k]
             /\ op'.name = "bInterval" =>
                    /\ new[6] = v % 256
                    /\ \A k \in 0..5 : new[k] = old[k]
             /\ \A q \in 1..arena.length :
                    (q < eps[e].descriptor_data \/ q > eps[e].descriptor_data + 6)
                        => ByteAt(arena', q) = ByteAt(arena, q)]_vars

\* a supplied descriptor is well-formed: every record is as long as its length byte
\* says, at least 2 bytes, and the records fill the length passed exactly
RECURSIVE SumLen(_)
SumLen(recs) == IF recs = <<>> THEN 0 ELSE Len(Head(recs)) + SumLen(Tail(recs))
WellFormed(in) ==
    /\ \A k \in 1..Len(in.recs) : Len(in.recs[k]) >= 2 /\ in.recs[k][1] = Len(in.recs[k])
    /\ SumLen(in.recs) = in.len

\* C15: on a malformed input (a record of length 0 before the end, or a last record
\* that extends past the length passed) the parser stops without reading at or
\* behind data+length, and leaves no interface or endpoint it made in the tree
C15_MalformedInputRejected ==
    (op.name = "parse" /\ ~fault /\ ~WellFormed(op.aux.input)) =>
        /\ op.aux.cursor < op.result + op.aux.input.len
        /\ Len(itfs) = op.aux.itfs0
        /\ Len(eps) = op.aux.eps0
        /\ size(confs[op.arg].interfaces) = op.before

\* the records of the input with tag 4, those with tag 5 that follow one with tag 4,
\* the n-th index of a set of indices, and the position record k of the input has in
\* the arena
InterfaceRecords(recs) == {k \in 1..Len(recs) : recs[k][2] = 4}
AttachedRecords(recs) ==
    {k \in 1..Len(recs) : recs[k][2] = 5 /\ \E j \in InterfaceRecords(recs) : j < k}
Nth(S, n) == CHOOSE k \in S : Cardinality({j \in S : j < k}) = n - 1
PositionOf(start, recs, k) == start + SumLen(SubSeq(recs, 1, k - 1))

\* C20: on a well-formed input the parser makes one interface node per record of
\* type 4, in input order, at the record's position; one endpoint node per record of
\* type 5 that follows a record of type 4, attached to the latest interface before
\* it; no node for any other record; and the cursor ends at the end of the input
C20_ParserBuildsTree ==
    (op.name = "parse" /\ ~fault /\ WellFormed(op.aux.input)) =>
        LET recs == op.aux.input.recs
            I == InterfaceRecords(recs)
            E == AttachedRecords(recs)
            itfs0 == op.aux.itfs0
            eps0 == op.aux.eps0
        IN /\ Len(itfs) = itfs0 + Cardinality(I)
           /\ Len(eps) = eps0 + Cardinality(E)
           /\ size(confs[op.arg].interfaces) = op.before + Cardinality(I)
           /\ \A n \in 1..Cardinality(I) :
                  /\ itfs[itfs0 + n].descriptor_data = PositionOf(op.result, recs, Nth(I, n))
                  /\ itfs[itfs0 + n].parent = op.arg
                  /\ get(confs[op.arg].interfaces, op.before + n - 1) = itfs0 + n
           /\ \A n \in 1..Cardinality(E) :
                  /\ eps[eps0 + n].descriptor_data = PositionOf(op.result, recs, Nth(E, n))
                  /\ eps[eps0 + n].parent
                         = itfs0 + Cardinality({j \in I : j < Nth(E, n)})
           /\ op.aux.cursor = op.result + op.aux.input.len

\* the input with an endpoint record before the first interface record and a record
\* of another type was parsed into a configuration that had an interface
C20_Witness ==
    /\ op.name = "parse" /\ ~fault
    /\ WellFormed(op.aux.input)
    /\ Len(op.aux.input.recs) = 7
    /\ op.before = 1
    /\ Len(eps) = op.aux.eps0 + 2

\* C21: an append that succeeds returns the position at the length before the call,
\* advances the length by the bytes appended, stores the given bytes there, zeroes
\* when no data is given, and changes no byte below the position it returns
C21_AppendStoresAtEnd ==
    [][\A in \in AppendInputs :
         (AddDescriptor(in[1], in[2]) /\ ~fault' /\ op'.result # Null) =>
             LET offset == arena.length
                 len == op'.aux
             IN /\ op'.result = offset + 1
                /\ arena'.length = offset + len
                /\ \A k \in 1..len :
                       arena'.buf.data[offset + k]
                           = IF in[1] = NullBytes THEN 0 ELSE in[1][k]
                /\ \A i \in 1..offset : arena'.buf.data[i] = buffer(arena).buf.data[i]]_vars

\* C22: an append whose bytes fit in the buffer, the one that fills it exactly
\* included, is not rejected
C22_FittingAppendSucceeds ==
    (Appended /\ op.before + op.aux <= arena.buf.max_size) => op.result # Null

\* the values a Vector hands back for the positions in use
Contents(v) == [k \in 1..size(v) |-> get(v, k - 1)]

\* C23: the values appended to a Vector since its construction or its last clear are
\* its contents, in order, whatever its initial size and increment and however often
\* it grew, and no append stops the program; the string table, while never cleared,
\* hands back the k-th text added for every k
C23_GrowthPreservesContent ==
    /\ ~fault
    /\ Contents(vec) = appended
    /\ size(char_array) = Len(issued)
           => \A k \in 1..Len(issued) : USBStrings_get(char_array, k) = issued[k][2]

\* C24: bNumConfigurations of the device record (offset 17) is the number of
\* configurations the device owns, usbConfigurationCount(), in every state
C24_NumConfigurationsIsCount ==
    DeviceRecord[18] = size(dev.configurations)

\* C25: findDescriptor(id, idx) returns, with a record or with nullptr, on every
\* content of the arena that addDescriptor(desc, len) can leave there, bytes with a
\* length byte of 0 included
C25_FindTerminates ==
    op.name = "findDescriptor" => op.result # Hangs

\* two string records are equal: the same length byte and the same bytes over that
\* length
EqualRecords(str1, str2) ==
    /\ Bytes(str1)[1] = Bytes(str2)[1]
    /\ \A i \in 1..Bytes(str1)[1] : Bytes(str1)[i] = Bytes(str2)[i]

\* C26: equals(a, b) is true exactly when the two string records are equal
C26_EqualsIffEqualRecords ==
    op.name = "equals" => (op.result <=> EqualRecords(op.arg, op.aux))

====
